---- MODULE Spec2Model ----
(***************************************************************************)
(* EIP-7702 delegation scripts: scripts/check-delegation.ts.               *)
(*                                                                         *)
(* Strings are sequences of one-character strings, so that slice,          *)
(* startsWith, toLowerCase and string equality are computed character by   *)
(* character.  The fixed text of a template literal is kept as one token   *)
(* of the sequence (for instance "Failed to check delegation: ").          *)
(***************************************************************************)
EXTENDS Integers, Sequences, FiniteSets, TLC

(***************************************************************************)
(* Bounds of the model.                                                    *)
(***************************************************************************)
\* the chain reader returns codes whose body is 40 +/- MaxSlack characters
MaxSlack == 2
\* longest address list handed to checkMultipleDelegations by a library caller
MaxBatch == 2
\* longest command line
MaxArgs == 3

(***************************************************************************)
(* String primitives of the language.                                      *)
(***************************************************************************)
Min(a, b) == IF a <= b THEN a ELSE b

\* String.prototype.toLowerCase, on the letters the model uses
LowerOf ==
  [c \in {"A", "B", "C", "D", "E", "F", "X", "G", "Z", "S"} |->
     CASE c = "A" -> "a" [] c = "B" -> "b" [] c = "C" -> "c"
       [] c = "D" -> "d" [] c = "E" -> "e" [] c = "F" -> "f"
       [] c = "X" -> "x" [] c = "G" -> "g" [] c = "Z" -> "z"
       [] c = "S" -> "s"]

toLowerCase(s) ==
  [i \in 1..Len(s) |-> IF s[i] \in DOMAIN LowerOf THEN LowerOf[s[i]] ELSE s[i]]

\* String.prototype.startsWith
startsWith(s, p) == Len(s) >= Len(p) /\ SubSeq(s, 1, Len(p)) = p

\* String.prototype.slice(from, to) for 0 <= from <= to (0-based, end exclusive,
\* clamped to the length of the string)
slice(s, from, to) ==
  IF from >= Min(to, Len(s)) THEN <<>> ELSE SubSeq(s, from + 1, Min(to, Len(s)))

HexChars ==
  {"0", "1", "2", "3", "4", "5", "6", "7", "8", "9",
   "a", "b", "c", "d", "e", "f", "A", "B", "C", "D", "E", "F"}

(***************************************************************************)
(* Constants of check-delegation.ts.                                       *)
(***************************************************************************)
DELEGATION_INDICATOR == <<"0", "x", "e", "f", "0", "1", "0", "0">>

mainnet == <<"m", "a", "i", "n", "n", "e", "t">>
sepolia == <<"s", "e", "p", "o", "l", "i", "a">>
base == <<"b", "a", "s", "e">>
baseSepolia == <<"b", "a", "s", "e", "S", "e", "p", "o", "l", "i", "a">>

\* Object.keys(networks)
networks == {mainnet, sepolia, base, baseSepolia}

\* code.slice(8, 48)
SliceFrom == 8
SliceTo == 48

EmptyCodeMarker == <<"0", "x">>

\* property names every object literal inherits from Object.prototype, whose
\* values are functions (truthy)
toString == <<"t", "o", "S", "t", "r", "i", "n", "g">>
constructor == <<"c", "o", "n", "s", "t", "r", "u", "c", "t", "o", "r">>
ObjectPrototypeKeys == {toString, constructor}

(***************************************************************************)
(* Values.                                                                 *)
(*   a code value is what client.getCode resolves to: undefined, or a      *)
(*   string.                                                               *)
(*   an error is a thrown value: an Error object (isError) with a message, *)
(*   or another value whose String() is kept in message; origin names the  *)
(*   place that constructed it, which distinguishes two objects with       *)
(*   possibly equal messages.                                              *)
(*   a record is an object literal: keys is the set of its properties.     *)
(***************************************************************************)
Undefined == [defined |-> FALSE, str |-> <<>>]
Str(s) == [defined |-> TRUE, str |-> s]

NoError == [origin |-> "none", isError |-> FALSE, message |-> <<>>]

NoRecord ==
  [keys |-> {}, isDelegated |-> FALSE, address |-> <<>>, network |-> <<>>,
   delegatedTo |-> <<>>, code |-> <<>>, message |-> <<>>, error |-> <<>>]

\* what createPublicClient throws when it is handed no chain and no URL
ClientLibraryError ==
  [origin |-> "createPublicClient", isError |-> TRUE,
   message |-> <<"No URL was provided to the Transport.">>]

\* error instanceof Error ? error.message : String(error)
ErrorText(error) == error.message


\* new Error(`Unknown network: ${networkName}. Available networks: ...`)
UnknownNetworkError(networkName) ==
  [origin |-> "checkDelegation", isError |-> TRUE,
   message |-> <<"Unknown network: ">> \o networkName
               \o <<". Available networks: ", "mainnet, sepolia, base, baseSepolia">>]

\* the caught error thrown on as it is
WrapErrorRethrow(error) == error

\* catch (error) { throw new Error(`Failed to check delegation: ${...}`) }
WrapError(error) ==
  [origin |-> "checkDelegation", isError |-> TRUE,
   message |-> <<"Failed to check delegation: ">> \o ErrorText(error)]

\* only the falsy test: !code
IsEmptyCodeFalsyOnly(code) ==
  \/ ~code.defined
  \/ code.str = <<>>

\* !code || code === '0x'
IsEmptyCode(code) ==
  \/ ~code.defined
  \/ code.str = <<>>
  \/ code.str = EmptyCodeMarker

\* an indicator two bytes long: 0xef01
IsDelegatedCodeShortPrefix(s) ==
  startsWith(toLowerCase(s), SubSeq(DELEGATION_INDICATOR, 1, 6))

\* code.toLowerCase().startsWith(DELEGATION_INDICATOR)
IsDelegatedCode(s) == startsWith(toLowerCase(s), DELEGATION_INDICATOR)

\* the address sliced from the lower-cased code
DelegatedAddressOfLowered(s) ==
  <<"0", "x">> \o slice(toLowerCase(s), SliceFrom, SliceTo)

\* '0x' + code.slice(8, 48)
DelegatedAddressOf(s) == <<"0", "x">> \o slice(s, SliceFrom, SliceTo)

\* the object checkDelegation returns once getCode has resolved to code
checkDelegationResult(address, networkName, code) ==
  IF IsEmptyCode(code)
  THEN [NoRecord EXCEPT
          !.keys = {"isDelegated", "address", "network", "message"},
          !.isDelegated = FALSE,
          !.address = address,
          !.network = networkName,
          !.message = <<"No code at address (EOA or no delegation)">>]
  ELSE IF IsDelegatedCode(code.str)
  THEN [NoRecord EXCEPT
          !.keys = {"isDelegated", "address", "network", "delegatedTo",
                    "code", "message"},
          !.isDelegated = TRUE,
          !.address = address,
          !.network = networkName,
          !.delegatedTo = DelegatedAddressOf(code.str),
          !.code = code.str,
          !.message = <<"Address is delegated to ">>
                      \o DelegatedAddressOf(code.str)]
  ELSE [NoRecord EXCEPT
          !.keys = {"isDelegated", "address", "network", "code", "message"},
          !.isDelegated = FALSE,
          !.address = address,
          !.network = networkName,
          !.code = code.str,
          !.message = <<"Address has code but no EIP-7702 delegation">>]

\* the object checkMultipleDelegations pushes for an address whose check threw
ErrorResult(address, networkName, error) ==
  [NoRecord EXCEPT
     !.keys = {"isDelegated", "address", "network", "error"},
     !.isDelegated = FALSE,
     !.address = address,
     !.network = networkName,
     !.error = ErrorText(error)]

\* the pattern without its character class: /^0x.{40}$/
IsValidAddressAnyChars(addr) ==
  /\ Len(addr) = 42
  /\ addr[1] = "0"
  /\ addr[2] = "x"

\* /^0x[a-fA-F0-9]{40}$/.test(addr)
IsValidAddress(addr) ==
  /\ Len(addr) = 42
  /\ addr[1] = "0"
  /\ addr[2] = "x"
  /\ \A k \in 3..42 : addr[k] \in HexChars

(***************************************************************************)
(* Inputs.                                                                 *)
(***************************************************************************)
\* a string of n characters that repeats pat
Repeat(pat, n) == [k \in 1..n |-> pat[((k - 1) % Len(pat)) + 1]]

BodyPatterns ==
  {<<"d", "8", "D", "a", "6", "B", "f", "2", "6", "9", "E">>,
   <<"0", "0", "1", "c", "A", "7", "3">>,
   <<"9", "g", "4", "Z", "b">>}

CodePrefixes ==
  {<<"0", "x", "e", "f", "0", "1", "0", "0">>,
   <<"0", "x", "E", "F", "0", "1", "0", "0">>,
   <<"0", "x", "e", "F", "0", "1", "0", "0">>,
   <<"0", "X", "e", "f", "0", "1", "0", "0">>,
   <<"0", "x", "6", "0", "8", "0", "6", "0">>,
   <<"0", "x", "e", "f", "0", "1", "0", "1">>,
   <<"0", "x", "e", "f", "0", "1">>,
   <<"0", "x", "0", "0", "e", "f", "0", "1", "0", "0">>,
   <<"0", "x">>,
   <<>>}

BodyLengths == {0, 2} \cup ((40 - MaxSlack)..(40 + MaxSlack))

\* what getCode can resolve to
CodeValues ==
  {Undefined} \cup
  {Str(p \o Repeat(b, n)) : p \in CodePrefixes, b \in BodyPatterns,
                            n \in BodyLengths}

\* the codes a batch or a command line is run against
FewCodeValues ==
  {Undefined,
   Str(EmptyCodeMarker),
   Str(DELEGATION_INDICATOR \o Repeat(<<"d", "8", "D", "a", "6", "B", "f", "2", "6", "9", "E">>, 40)),
   Str(<<"0", "x", "E", "F", "0", "1", "0", "0">> \o Repeat(<<"0", "0", "1", "c", "A", "7", "3">>, 2)),
   Str(<<"0", "x", "6", "0", "8", "0", "6", "0">> \o Repeat(<<"0", "0", "1", "c", "A", "7", "3">>, 40))}

\* what getCode can reject with: an Error, or a thrown non-Error value
ReaderErrors ==
  {[origin |-> "getCode", isError |-> TRUE, message |-> <<"HTTP request failed.">>],
   [origin |-> "getCode", isError |-> TRUE, message |-> <<>>],
   [origin |-> "getCode", isError |-> FALSE, message |-> <<"timeout">>]}

FewReaderErrors ==
  {[origin |-> "getCode", isError |-> TRUE, message |-> <<"HTTP request failed.">>]}

Address1 == <<"0", "x">> \o Repeat(<<"7", "4", "2", "d", "3", "5", "C", "c">>, 40)
Address2 == <<"0", "x">> \o Repeat(<<"A", "b", "5", "8", "0", "1", "a">>, 40)
Addresses == {Address1, Address2}

goerli == <<"g", "o", "e", "r", "l", "i">>
Mainnet == <<"M", "a", "i", "n", "n", "e", "t">>
NetworkNames == networks \cup {goerli, Mainnet, toString}

\* command-line arguments: addresses, malformed addresses, network names
ArgPool ==
  {Address1, Address2,
   <<"0", "x">> \o Repeat(<<"7", "4", "2", "d", "3", "5", "C", "c">>, 39),
   <<"0", "x">> \o Repeat(<<"9", "g", "4", "Z", "b">>, 40),
   sepolia, goerli, toString}

SeqsUpTo(S, n) == UNION {[1..k -> S] : k \in 0..n}


(***************************************************************************)
(* State.                                                                  *)
(***************************************************************************)
VARIABLES
  pc,          \* "idle": nothing called yet; "getCode": awaiting client.getCode;
               \* "done": the entry function has settled (or the process exited)
  entry,       \* the exported function that was called
  cli,         \* TRUE when the module runs as a script (require.main === module)
  args,        \* process.argv.slice(2)
  reported,    \* arguments reported by "Invalid address format"
  addresses,   \* the addresses the entry function was called with
  networkName, \* its network argument
  i,           \* index in addresses of the address being checked
  results,     \* the results array of checkMultipleDelegations
  returned,    \* the record the entry function resolved to (NoRecord if none)
  throws,      \* the errors thrown so far, each with the function it left
  exitCode,    \* process exit status, NoExit while there is none
  clients,     \* number of createPublicClient calls
  getCodeCalls, \* number of client.getCode calls issued
  inflight,    \* number of getCode calls not yet settled
  reads,       \* what each getCode call settled to, in order
  notice,      \* the last message of the script body itself: "usage",
               \* "No valid addresses provided", "Fatal error", or "none"
  \* a run of scripts/revoke.ts or scripts/delegate.ts
  script,      \* "revoke", "delegate", or "none" before the first run
  spc,         \* "idle"; "sign", "send": awaiting signAuthorization,
               \* sendTransaction; "exited"
  env,         \* process.env of the run
  account,     \* account.address
  authorization, \* what signAuthorization resolved to
  successLogged, \* the 'successfully revoked / established' lines were printed
  scriptExit,  \* exit status of the run, NoExit while it runs
  sends,       \* number of sendTransaction calls of the run
  runs,        \* number of runs started
  \* the chain the scripts and the check talk to
  txs,         \* the transactions broadcast, in order
  mined,       \* how many of them are mined
  chainCode,   \* the code of each account
  lastOp,      \* for each account, the last mined transaction that set its code
  observed     \* lastOp of the checked account when its code was read

checkVars ==
  <<pc, entry, cli, args, reported, addresses, networkName, i, results,
    returned, throws, exitCode, clients, getCodeCalls, inflight, reads, notice>>

scriptVars ==
  <<script, spc, env, account, authorization, successLogged, scriptExit,
    sends, runs>>

chainVars == <<txs, mined, chainCode, lastOp, observed>>

vars == <<checkVars, scriptVars, chainVars>>

NoExit == -1

\* the burn address 0x...dEaD in place of the zero address
ZERO_ADDRESS_DEAD == <<"0", "x">> \o Repeat(<<"0">>, 36) \o <<"d", "E", "a", "D">>

\* const ZERO_ADDRESS = '0x0000000000000000000000000000000000000000'
ZERO_ADDRESS == <<"0", "x">> \o Repeat(<<"0">>, 40)

NoAuthorization == [signed |-> FALSE, target |-> <<>>, signer |-> <<>>]
NoOp == [by |-> "none", target |-> <<>>]
NoEnv == [PRIVATE_KEY |-> <<>>, DELEGATION_CONTRACT |-> <<>>]

InitScript ==
  /\ script = "none"
  /\ spc = "idle"
  /\ env = NoEnv
  /\ account = <<>>
  /\ authorization = NoAuthorization
  /\ successLogged = FALSE
  /\ scriptExit = NoExit
  /\ sends = 0
  /\ runs = 0

InitCheck ==
  /\ pc = "idle"
  /\ entry = "none"
  /\ cli = FALSE
  /\ args = <<>>
  /\ reported = <<>>
  /\ addresses = <<>>
  /\ networkName = <<>>
  /\ i = 0
  /\ results = <<>>
  /\ returned = NoRecord
  /\ throws = <<>>
  /\ exitCode = NoExit
  /\ clients = 0
  /\ getCodeCalls = 0
  /\ inflight = 0
  /\ reads = <<>>
  /\ notice = "none"

\* no script has run and every account is a plain EOA
Init ==
  /\ InitCheck
  /\ InitScript
  /\ txs = <<>>
  /\ mined = 0
  /\ chainCode = [a \in Addresses |-> EmptyCodeMarker]
  /\ lastOp = [a \in Addresses |-> NoOp]
  /\ observed = NoOp

Thrown(by, error) == [by |-> by, error |-> error]

\* the truth value of networks[networkName]: networks is an object literal, so
\* the lookup also finds the properties every object inherits
NetworkFound(name) == name \in networks \/ name \in ObjectPrototypeKeys

\* what lines 40-51 come to: "unknown" (the throw of line 43), "client" (a
\* client was created), or "clientError" (createPublicClient itself threw:
\* possible only for a looked-up value that is no network configuration, and
\* then up to the client library, libThrows)
Resolve(name, libThrows) ==
  IF ~NetworkFound(name) THEN "unknown"
  ELSE IF name \notin networks /\ libThrows THEN "clientError"
  ELSE "client"

\* the error checkDelegation throws before its try block
EarlyError(name, libThrows) ==
  IF Resolve(name, libThrows) = "unknown"
  THEN UnknownNetworkError(name)
  ELSE ClientLibraryError

\* createPublicClient calls made by one checkDelegation call
ClientCalls(name, libThrows) ==
  IF Resolve(name, libThrows) = "unknown" THEN 0 ELSE 1

\* a catch at the end of the script that only logs
ExitStatusAlwaysZero(isCli, failed) == IF ~isCli THEN NoExit ELSE 0

\* the exit status once the script's async body has settled
ExitStatus(isCli, failed) ==
  IF ~isCli THEN NoExit ELSE IF failed THEN 1 ELSE 0

(***************************************************************************)
(* An entry function is called with addrs and net and runs up to its first *)
(* await of client.getCode, or to its end when checkDelegation throws      *)
(* before its try block.                                                   *)
(***************************************************************************)
\* checkDelegation, called directly: lines 40-55
StartCheck(isCli, addrs, net, libThrows) ==
  IF Resolve(net, libThrows) = "client"
  THEN /\ pc' = "getCode"
       /\ i' = 1
       /\ clients' = clients + 1
       /\ getCodeCalls' = getCodeCalls + 1
       /\ inflight' = inflight + 1
       /\ UNCHANGED <<throws, exitCode>>
  ELSE /\ pc' = "done"
       /\ i' = 1
       /\ clients' = clients + ClientCalls(net, libThrows)
       /\ throws' = throws \o <<Thrown("checkDelegation", EarlyError(net, libThrows))>>
       /\ exitCode' = ExitStatus(isCli, TRUE)
       /\ UNCHANGED <<getCodeCalls, inflight>>

\* displayDelegationInfo: lines 112-113, and 129-132 when the check throws
StartDisplay(isCli, addrs, net, libThrows) ==
  IF Resolve(net, libThrows) = "client"
  THEN /\ pc' = "getCode"
       /\ i' = 1
       /\ clients' = clients + 1
       /\ getCodeCalls' = getCodeCalls + 1
       /\ inflight' = inflight + 1
       /\ UNCHANGED <<throws, exitCode>>
  ELSE /\ pc' = "done"
       /\ i' = 1
       /\ clients' = clients + ClientCalls(net, libThrows)
       /\ throws' = throws \o
            <<Thrown("checkDelegation", EarlyError(net, libThrows)),
              Thrown("displayDelegationInfo", EarlyError(net, libThrows))>>
       /\ exitCode' = ExitStatus(isCli, TRUE)
       /\ UNCHANGED <<getCodeCalls, inflight>>

\* the network looked up once before the loop, an unknown name thrown to the
\* caller of checkMultipleDelegations
StartBatchValidating(isCli, addrs, net, libThrows) ==
  IF Resolve(net, libThrows) = "unknown"
  THEN /\ pc' = "done"
       /\ i' = 0
       /\ results' = <<>>
       /\ throws' = throws \o
            <<Thrown("checkMultipleDelegations", UnknownNetworkError(net))>>
       /\ exitCode' = ExitStatus(isCli, TRUE)
       /\ UNCHANGED <<clients, getCodeCalls, inflight>>
  ELSE IF addrs # <<>> /\ Resolve(net, libThrows) = "client"
  THEN /\ pc' = "getCode"
       /\ i' = 1
       /\ results' = <<>>
       /\ clients' = clients + 1
       /\ getCodeCalls' = getCodeCalls + 1
       /\ inflight' = inflight + 1
       /\ UNCHANGED <<throws, exitCode>>
  ELSE /\ pc' = "done"
       /\ i' = Len(addrs)
       /\ results' = [k \in 1..Len(addrs) |->
                        ErrorResult(addrs[k], net, EarlyError(net, libThrows))]
       /\ clients' = clients + Len(addrs) * ClientCalls(net, libThrows)
       /\ throws' = throws \o [k \in 1..Len(addrs) |->
                        Thrown("checkDelegation", EarlyError(net, libThrows))]
       /\ exitCode' = ExitStatus(isCli, FALSE)
       /\ UNCHANGED <<getCodeCalls, inflight>>

\* the checks started together (Promise.all) instead of one after the other
StartBatchParallel(isCli, addrs, net, libThrows) ==
  IF addrs # <<>> /\ Resolve(net, libThrows) = "client"
  THEN /\ pc' = "getCode"
       /\ i' = 1
       /\ results' = <<>>
       /\ clients' = clients + Len(addrs)
       /\ getCodeCalls' = getCodeCalls + Len(addrs)
       /\ inflight' = inflight + Len(addrs)
       /\ UNCHANGED <<throws, exitCode>>
  ELSE /\ pc' = "done"
       /\ i' = Len(addrs)
       /\ results' = [k \in 1..Len(addrs) |->
                        ErrorResult(addrs[k], net, EarlyError(net, libThrows))]
       /\ clients' = clients + Len(addrs) * ClientCalls(net, libThrows)
       /\ throws' = throws \o [k \in 1..Len(addrs) |->
                        Thrown("checkDelegation", EarlyError(net, libThrows))]
       /\ exitCode' = ExitStatus(isCli, FALSE)
       /\ UNCHANGED <<getCodeCalls, inflight>>

\* checkMultipleDelegations: lines 149-153, and the whole loop when every
\* checkDelegation call throws before its await
StartBatch(isCli, addrs, net, libThrows) ==
  IF addrs # <<>> /\ Resolve(net, libThrows) = "client"
  THEN /\ pc' = "getCode"
       /\ i' = 1
       /\ results' = <<>>
       /\ clients' = clients + 1
       /\ getCodeCalls' = getCodeCalls + 1
       /\ inflight' = inflight + 1
       /\ UNCHANGED <<throws, exitCode>>
  ELSE /\ pc' = "done"
       /\ i' = Len(addrs)
       /\ results' = [k \in 1..Len(addrs) |->
                        ErrorResult(addrs[k], net, EarlyError(net, libThrows))]
       /\ clients' = clients + Len(addrs) * ClientCalls(net, libThrows)
       /\ throws' = throws \o [k \in 1..Len(addrs) |->
                        Thrown("checkDelegation", EarlyError(net, libThrows))]
       /\ exitCode' = ExitStatus(isCli, FALSE)
       /\ UNCHANGED <<getCodeCalls, inflight>>

checkDelegation(address, net, libThrows) ==
  /\ pc = "idle"
  /\ entry' = "checkDelegation"
  /\ addresses' = <<address>>
  /\ networkName' = net
  /\ StartCheck(FALSE, <<address>>, net, libThrows)
  /\ UNCHANGED <<notice, scriptVars, chainVars>>
  /\ UNCHANGED <<cli, args, reported, results, returned, reads>>

displayDelegationInfo(address, net, libThrows) ==
  /\ pc = "idle"
  /\ entry' = "displayDelegationInfo"
  /\ addresses' = <<address>>
  /\ networkName' = net
  /\ StartDisplay(FALSE, <<address>>, net, libThrows)
  /\ UNCHANGED <<notice, scriptVars, chainVars>>
  /\ UNCHANGED <<cli, args, reported, results, returned, reads>>

checkMultipleDelegations(addrs, net, libThrows) ==
  /\ pc = "idle"
  /\ entry' = "checkMultipleDelegations"
  /\ addresses' = addrs
  /\ networkName' = net
  /\ StartBatch(FALSE, addrs, net, libThrows)
  /\ UNCHANGED <<notice, scriptVars, chainVars>>
  /\ UNCHANGED <<cli, args, reported, returned, reads>>


(***************************************************************************)
(* The script body: lines 177-225, up to the first await.                  *)
(***************************************************************************)
IsInvalidAddress(addr) == ~IsValidAddress(addr)

\* the last argument looked up in the object: networks[lastArg]
IsNetworkArgByLookup(a) == a # <<>> /\ NetworkFound(a[Len(a)])

\* const lastArg = args[args.length - 1]; const isNetwork = ...includes(lastArg)
IsNetworkArg(a) == a # <<>> /\ a[Len(a)] \in networks

\* const networkName = isNetwork ? lastArg : 'mainnet'
CliNetwork(a) == IF IsNetworkArg(a) THEN a[Len(a)] ELSE mainnet

\* const addresses = isNetwork ? args.slice(0, -1) : args
CliCandidates(a) == IF IsNetworkArg(a) THEN SubSeq(a, 1, Len(a) - 1) ELSE a

\* the result of filter dropped: the candidates themselves are checked
CliValidAddressesUnfiltered(a) == CliCandidates(a)

\* addresses.filter(...)
CliValidAddresses(a) == SelectSeq(CliCandidates(a), IsValidAddress)

main(a) ==
  /\ pc = "idle"
  /\ cli' = TRUE
  /\ args' = a
  /\ UNCHANGED <<returned, reads, scriptVars, chainVars>>
  /\ IF a = <<>>
     THEN \* usage, process.exit(1)
          /\ pc' = "done"
          /\ exitCode' = 1
          /\ notice' = "usage"
          /\ UNCHANGED <<entry, reported, addresses, networkName, i, results,
                         throws, clients, getCodeCalls, inflight>>
     ELSE /\ networkName' = CliNetwork(a)
          /\ reported' = SelectSeq(CliCandidates(a), IsInvalidAddress)
          /\ IF CliValidAddresses(a) = <<>>
             THEN \* 'No valid addresses provided', process.exit(1)
                  /\ pc' = "done"
                  /\ exitCode' = 1
                  /\ notice' = "No valid addresses provided"
                  /\ UNCHANGED <<entry, addresses, i, results, throws, clients,
                                 getCodeCalls, inflight>>
             ELSE /\ addresses' = CliValidAddresses(a)
                  /\ notice' = "none"
                  /\ IF Len(CliValidAddresses(a)) = 1
                     THEN /\ entry' = "displayDelegationInfo"
                          /\ StartDisplay(TRUE, CliValidAddresses(a), CliNetwork(a), FALSE)
                          /\ UNCHANGED results
                     ELSE /\ entry' = "checkMultipleDelegations"
                          /\ StartBatch(TRUE, CliValidAddresses(a), CliNetwork(a), FALSE)

(***************************************************************************)
(* client.getCode settles and the awaiting code runs on: to the end of the *)
(* entry function, or to the next await of getCode in the batch loop.      *)
(***************************************************************************)
\* checkDelegation called directly: lines 57-95
ContinueCheck(failed, rec, err) ==
  /\ pc' = "done"
  /\ inflight' = inflight - 1
  /\ returned' = rec
  /\ throws' = IF failed THEN throws \o <<Thrown("checkDelegation", err)>>
               ELSE throws
  /\ UNCHANGED <<i, results, exitCode, clients, getCodeCalls>>

\* displayDelegationInfo: lines 113-132, then lines 214-223 of the script
ContinueDisplay(failed, rec, err) ==
  /\ pc' = "done"
  /\ inflight' = inflight - 1
  /\ returned' = rec
  /\ throws' = IF failed
               THEN throws \o <<Thrown("checkDelegation", err),
                                Thrown("displayDelegationInfo", err)>>
               ELSE throws
  /\ exitCode' = ExitStatus(cli, failed)
  /\ UNCHANGED <<i, results, clients, getCodeCalls>>

\* a catch block that logs the error and pushes nothing
ContinueBatchSkipFailed(failed, rec, err) ==
  /\ results' = IF failed THEN results ELSE Append(results, rec)
  /\ throws' = IF failed THEN throws \o <<Thrown("checkDelegation", err)>>
               ELSE throws
  /\ UNCHANGED returned
  /\ IF i < Len(addresses)
     THEN /\ pc' = "getCode"
          /\ i' = i + 1
          /\ clients' = clients + 1
          /\ getCodeCalls' = getCodeCalls + 1
          /\ inflight' = inflight - 1 + 1
          /\ UNCHANGED exitCode
     ELSE /\ pc' = "done"
          /\ inflight' = inflight - 1
          /\ exitCode' = ExitStatus(cli, FALSE)
          /\ UNCHANGED <<i, clients, getCodeCalls>>

\* a try block around the whole loop: the first failure ends the batch
ContinueBatchAbort(failed, rec, err) ==
  /\ results' = Append(results,
                       IF failed
                       THEN ErrorResult(addresses[i], networkName, err)
                       ELSE rec)
  /\ throws' = IF failed THEN throws \o <<Thrown("checkDelegation", err)>>
               ELSE throws
  /\ UNCHANGED returned
  /\ IF i < Len(addresses) /\ ~failed
     THEN /\ pc' = "getCode"
          /\ i' = i + 1
          /\ clients' = clients + 1
          /\ getCodeCalls' = getCodeCalls + 1
          /\ inflight' = inflight - 1 + 1
          /\ UNCHANGED exitCode
     ELSE /\ pc' = "done"
          /\ inflight' = inflight - 1
          /\ exitCode' = ExitStatus(cli, FALSE)
          /\ UNCHANGED <<i, clients, getCodeCalls>>

\* the script exits 1 when a result of the batch carries an error
ContinueBatchFailExit(failed, rec, err) ==
  /\ results' = Append(results,
                       IF failed
                       THEN ErrorResult(addresses[i], networkName, err)
                       ELSE rec)
  /\ throws' = IF failed THEN throws \o <<Thrown("checkDelegation", err)>>
               ELSE throws
  /\ UNCHANGED returned
  /\ IF i < Len(addresses)
     THEN /\ pc' = "getCode"
          /\ i' = i + 1
          /\ clients' = clients + 1
          /\ getCodeCalls' = getCodeCalls + 1
          /\ inflight' = inflight - 1 + 1
          /\ UNCHANGED exitCode
     ELSE /\ pc' = "done"
          /\ inflight' = inflight - 1
          /\ exitCode' = ExitStatus(cli, failed \/ \E k \in 1..Len(results) :
                                                    "error" \in results[k].keys)
          /\ UNCHANGED <<i, clients, getCodeCalls>>

\* the code kept in a variable shared by the checks and read before it is
\* assigned: a check after a successful one decodes the previous code
ContinueBatchStaleCode(failed, rec, err) ==
  /\ results' = Append(results,
                       IF failed
                       THEN ErrorResult(addresses[i], networkName, err)
                       ELSE IF reads # <<>> /\ reads[Len(reads)].ok
                       THEN checkDelegationResult(addresses[i], networkName,
                                                  reads[Len(reads)].code)
                       ELSE rec)
  /\ throws' = IF failed THEN throws \o <<Thrown("checkDelegation", err)>>
               ELSE throws
  /\ UNCHANGED returned
  /\ IF i < Len(addresses)
     THEN /\ pc' = "getCode"
          /\ i' = i + 1
          /\ clients' = clients + 1
          /\ getCodeCalls' = getCodeCalls + 1
          /\ inflight' = inflight - 1 + 1
          /\ UNCHANGED exitCode
     ELSE /\ pc' = "done"
          /\ inflight' = inflight - 1
          /\ exitCode' = ExitStatus(cli, FALSE)
          /\ UNCHANGED <<i, clients, getCodeCalls>>

\* checkMultipleDelegations: lines 153-173, then lines 214-223 of the script
ContinueBatch(failed, rec, err) ==
  /\ results' = Append(results,
                       IF failed
                       THEN ErrorResult(addresses[i], networkName, err)
                       ELSE rec)
  /\ throws' = IF failed THEN throws \o <<Thrown("checkDelegation", err)>>
               ELSE throws
  /\ UNCHANGED returned
  /\ IF i < Len(addresses)
     THEN /\ pc' = "getCode"
          /\ i' = i + 1
          /\ clients' = clients + 1
          /\ getCodeCalls' = getCodeCalls + 1
          /\ inflight' = inflight - 1 + 1
          /\ UNCHANGED exitCode
     ELSE /\ pc' = "done"
          /\ inflight' = inflight - 1
          /\ exitCode' = ExitStatus(cli, FALSE)
          /\ UNCHANGED <<i, clients, getCodeCalls>>

Continue(failed, rec, err) ==
  CASE entry = "checkDelegation" -> ContinueCheck(failed, rec, err)
    [] entry = "displayDelegationInfo" -> ContinueDisplay(failed, rec, err)
    [] entry = "checkMultipleDelegations" -> ContinueBatch(failed, rec, err)

Read(ok, code, error) == [ok |-> ok, code |-> code, error |-> error]

\* the codes and errors the chain reader is given for the call in flight
CodesFor(e) == IF e = "checkMultipleDelegations" THEN FewCodeValues ELSE CodeValues
ErrorsFor(e) == IF e = "checkMultipleDelegations" THEN FewReaderErrors ELSE ReaderErrors

\* a hex-format validation of the code inside the try block, throwing on a
\* string that is not 0x followed by an even number of hex digits
getCodeResolvesValidating(code) ==
  /\ pc = "getCode"
  /\ reads' = Append(reads, Read(TRUE, code, NoError))
  /\ IF /\ code.defined
        /\ code.str # <<>>
        /\ ~( /\ startsWith(code.str, EmptyCodeMarker)
              /\ \A k \in 3..Len(code.str) : code.str[k] \in HexChars
              /\ Len(code.str) % 2 = 0 )
     THEN Continue(TRUE, NoRecord,
                   WrapError([origin |-> "checkDelegation", isError |-> TRUE,
                              message |-> <<"Malformed code">>]))
     ELSE Continue(FALSE,
                   checkDelegationResult(addresses[i], networkName, code),
                   NoError)
  /\ notice' = IF cli /\ exitCode' = 1 THEN "Fatal error" ELSE notice
  /\ UNCHANGED <<entry, cli, args, reported, addresses, networkName>>
  /\ UNCHANGED <<scriptVars, chainVars>>

getCodeResolves(code) ==
  /\ pc = "getCode"
  /\ reads' = Append(reads, Read(TRUE, code, NoError))
  /\ Continue(FALSE, checkDelegationResult(addresses[i], networkName, code), NoError)
  /\ notice' = IF cli /\ exitCode' = 1 THEN "Fatal error" ELSE notice
  /\ UNCHANGED <<entry, cli, args, reported, addresses, networkName>>
  /\ UNCHANGED <<scriptVars, chainVars>>

\* a rejected read issued once more, unless the read before it failed too
getCodeRejectsRetry(error) ==
  /\ pc = "getCode"
  /\ reads' = Append(reads, Read(FALSE, Undefined, error))
  /\ IF reads = <<>> \/ reads[Len(reads)].ok
     THEN /\ getCodeCalls' = getCodeCalls + 1
          /\ UNCHANGED <<pc, i, results, returned, throws, exitCode, clients,
                         inflight>>
     ELSE Continue(TRUE, NoRecord, WrapError(error))
  /\ notice' = IF cli /\ exitCode' = 1 THEN "Fatal error" ELSE notice
  /\ UNCHANGED <<entry, cli, args, reported, addresses, networkName>>
  /\ UNCHANGED <<scriptVars, chainVars>>

getCodeRejects(error) ==
  /\ pc = "getCode"
  /\ reads' = Append(reads, Read(FALSE, Undefined, error))
  /\ Continue(TRUE, NoRecord, WrapError(error))
  /\ notice' = IF cli /\ exitCode' = 1 THEN "Fatal error" ELSE notice
  /\ UNCHANGED <<entry, cli, args, reported, addresses, networkName>>
  /\ UNCHANGED <<scriptVars, chainVars>>

Next ==
  \/ \E address \in Addresses, net \in NetworkNames, libThrows \in BOOLEAN :
       checkDelegation(address, net, libThrows)
  \/ \E address \in Addresses, net \in NetworkNames, libThrows \in BOOLEAN :
       displayDelegationInfo(address, net, libThrows)
  \/ \E addrs \in SeqsUpTo(Addresses, MaxBatch), net \in NetworkNames,
        libThrows \in BOOLEAN :
       checkMultipleDelegations(addrs, net, libThrows)
  \/ \E a \in SeqsUpTo(ArgPool, MaxArgs) : main(a)
  \/ \E code \in CodesFor(entry) : getCodeResolves(code)
  \/ \E error \in ErrorsFor(entry) : getCodeRejects(error)

(***************************************************************************)
(* scripts/revoke.ts and scripts/delegate.ts.                              *)
(***************************************************************************)
\* bound: the number of script runs in one behaviour
MaxRuns == 2

\* privateKeyToAccount(`0x${process.env.PRIVATE_KEY}`) accepts 0x followed by
\* 64 hex characters and throws on anything else
IsPrivateKey(k) ==
  /\ Len(k) = 66
  /\ k[1] = "0" /\ k[2] = "x"
  /\ \A j \in 3..66 : k[j] \in HexChars

Key1 == Repeat(<<"a", "1", "b", "2">>, 64)
Key2 == Repeat(<<"5", "c", "0", "d", "9">>, 64)
\* a key written with its 0x prefix in .env
PrefixedKey == <<"0", "x">> \o Repeat(<<"a", "1", "b", "2">>, 64)

\* the address of the account of a key
AddressOfKey(k) == IF k = Key1 THEN Address1 ELSE Address2

Contract1 == <<"0", "x">> \o Repeat(<<"c", "0", "f", "f", "e", "e", "1">>, 40)
\* a checksummed (mixed-case) address
Contract2 == <<"0", "x">> \o Repeat(<<"D", "8", "d", "A", "6", "b", "F">>, 40)

\* process.env of a run: unset variables are empty
Envs ==
  [PRIVATE_KEY : {<<>>, Key1, Key2, PrefixedKey},
   DELEGATION_CONTRACT : {<<>>, ZERO_ADDRESS, Contract1, Contract2}]

\* a new process can be started when no script is running
ScriptIdle == spc \in {"idle", "exited"} /\ runs < MaxRuns

\* the account is created and the script reaches await client.signAuthorization,
\* or privateKeyToAccount throws and the script exits with status 1
LoadAccount(e) ==
  IF IsPrivateKey(<<"0", "x">> \o e.PRIVATE_KEY)
  THEN /\ account' = AddressOfKey(e.PRIVATE_KEY)
       /\ spc' = "sign"
       /\ scriptExit' = NoExit
  ELSE /\ account' = <<>>
       /\ spc' = "exited"
       /\ scriptExit' = 1

\* revoke.ts: lines 21-43
revokeDelegation(e) ==
  /\ ScriptIdle
  /\ script' = "revoke"
  /\ env' = e
  /\ runs' = runs + 1
  /\ authorization' = NoAuthorization
  /\ successLogged' = FALSE
  /\ sends' = 0
  /\ IF e.PRIVATE_KEY = <<>>
     THEN /\ account' = <<>>
          /\ spc' = "exited"
          /\ scriptExit' = 1
     ELSE LoadAccount(e)
  /\ UNCHANGED <<checkVars, chainVars>>

\* delegate.ts: lines 20-47
delegateToContract(e) ==
  /\ ScriptIdle
  /\ script' = "delegate"
  /\ env' = e
  /\ runs' = runs + 1
  /\ authorization' = NoAuthorization
  /\ successLogged' = FALSE
  /\ sends' = 0
  /\ IF e.PRIVATE_KEY = <<>> \/ e.DELEGATION_CONTRACT = <<>>
     THEN /\ account' = <<>>
          /\ spc' = "exited"
          /\ scriptExit' = 1
     ELSE LoadAccount(e)
  /\ UNCHANGED <<checkVars, chainVars>>

\* contractAddress of the signAuthorization call: revoke.ts line 44,
\* delegate.ts line 48
AuthorizationTarget ==
  IF script = "revoke" THEN ZERO_ADDRESS ELSE env.DELEGATION_CONTRACT

\* signAuthorization resolves; the script logs and calls sendTransaction
signAuthorizationResolves ==
  /\ spc = "sign"
  /\ authorization' = [signed |-> TRUE, target |-> AuthorizationTarget,
                       signer |-> account]
  /\ spc' = "send"
  /\ sends' = sends + 1
  /\ UNCHANGED <<script, env, account, successLogged, scriptExit, runs>>
  /\ UNCHANGED <<checkVars, chainVars>>

\* signAuthorization rejects: catch, rethrow, process.exit(1)
signAuthorizationRejects ==
  /\ spc = "sign"
  /\ spc' = "exited"
  /\ scriptExit' = 1
  /\ UNCHANGED <<script, env, account, authorization, successLogged, sends, runs>>
  /\ UNCHANGED <<checkVars, chainVars>>

\* the argument of client.sendTransaction: revoke.ts lines 53-58, delegate.ts
\* lines 57-62
Transaction ==
  [by |-> script, from |-> account, to |-> account, value |-> 0,
   data |-> <<"0", "x">>, authorizationList |-> <<authorization>>]

\* sendTransaction resolves to a hash: success is logged, process.exit(0)
sendTransactionResolves ==
  /\ spc = "send"
  /\ txs' = Append(txs, Transaction)
  /\ successLogged' = TRUE
  /\ spc' = "exited"
  /\ scriptExit' = 0
  /\ UNCHANGED <<script, env, account, authorization, sends, runs>>
  /\ UNCHANGED <<checkVars, mined, chainCode, lastOp, observed>>

\* the catch block without its throw: the script ends with process.exit(0)
sendTransactionRejectsSwallowed(broadcast) ==
  /\ spc = "send"
  /\ txs' = IF broadcast THEN Append(txs, Transaction) ELSE txs
  /\ spc' = "exited"
  /\ scriptExit' = 0
  /\ UNCHANGED <<script, env, account, authorization, successLogged, sends, runs>>
  /\ UNCHANGED <<checkVars, mined, chainCode, lastOp, observed>>

\* sendTransaction rejects, the transaction broadcast or not: catch, rethrow,
\* process.exit(1)
sendTransactionRejects(broadcast) ==
  /\ spc = "send"
  /\ txs' = IF broadcast THEN Append(txs, Transaction) ELSE txs
  /\ spc' = "exited"
  /\ scriptExit' = 1
  /\ UNCHANGED <<script, env, account, authorization, successLogged, sends, runs>>
  /\ UNCHANGED <<checkVars, mined, chainCode, lastOp, observed>>

(***************************************************************************)
(* The chain: a mined transaction applies its authorization to the account *)
(* that signed it.                                                         *)
(***************************************************************************)
IsZeroAddress(a) == Len(a) = 42 /\ \A k \in 3..42 : a[k] = "0"

\* the code an authorization leaves: none for the zero address, otherwise the
\* designator 0xef0100 followed by the 20 bytes of the target, which a node
\* prints in lower case
CodeAfter(target) ==
  IF IsZeroAddress(target) THEN EmptyCodeMarker
  ELSE DELEGATION_INDICATOR \o toLowerCase(SubSeq(target, 3, Len(target)))

Mine ==
  /\ mined < Len(txs)
  /\ mined' = mined + 1
  /\ LET tx == txs[mined + 1]
         auth == tx.authorizationList[1]
     IN /\ chainCode' = [chainCode EXCEPT ![auth.signer] = CodeAfter(auth.target)]
        /\ lastOp' = [lastOp EXCEPT ![auth.signer] =
                        [by |-> tx.by, target |-> auth.target]]
  /\ UNCHANGED <<txs, observed>>
  /\ UNCHANGED <<checkVars, scriptVars>>

\* what getCode resolves to for an account: its code, or for an account
\* without code either undefined or "0x"
ChainGetCode(a) ==
  IF chainCode[a] = EmptyCodeMarker
  THEN {Undefined, Str(EmptyCodeMarker)}
  ELSE {Str(chainCode[a])}

\* client.getCode resolves to the code the chain holds
getCodeFromChain(code) ==
  /\ pc = "getCode"
  /\ code \in ChainGetCode(addresses[i])
  /\ reads' = Append(reads, Read(TRUE, code, NoError))
  /\ Continue(FALSE, checkDelegationResult(addresses[i], networkName, code), NoError)
  /\ notice' = IF cli /\ exitCode' = 1 THEN "Fatal error" ELSE notice
  /\ UNCHANGED <<entry, cli, args, reported, addresses, networkName>>
  /\ observed' = lastOp[addresses[i]]
  /\ UNCHANGED <<txs, mined, chainCode, lastOp>>
  /\ UNCHANGED scriptVars

\* the accounts may have been delegated before the scripts are run
ChainInit ==
  /\ InitCheck
  /\ InitScript
  /\ txs = <<>>
  /\ mined = 0
  /\ \E c \in {EmptyCodeMarker, CodeAfter(Contract1)} :
       chainCode = [a \in Addresses |-> c]
  /\ lastOp = [a \in Addresses |-> NoOp]
  /\ observed = NoOp

ChainNext ==
  \/ \E e \in Envs : revokeDelegation(e)
  \/ \E e \in Envs : delegateToContract(e)
  \/ signAuthorizationResolves
  \/ signAuthorizationRejects
  \/ sendTransactionResolves
  \/ \E broadcast \in BOOLEAN : sendTransactionRejects(broadcast)
  \/ Mine
  \/ \E address \in Addresses : checkDelegation(address, mainnet, FALSE)
  \/ \E code \in {Undefined} \cup {Str(c) : c \in {EmptyCodeMarker} \cup
                    {CodeAfter(t) : t \in {Contract1, Contract2}}} :
       getCodeFromChain(code)
  \/ \E error \in FewReaderErrors : getCodeRejects(error)

ChainSpec == ChainInit /\ [][ChainNext]_vars

Spec == Init /\ [][Next]_vars


(***************************************************************************)
(* Properties.                                                             *)
(***************************************************************************)
\* the record the k-th getCode call led to (results are pushed, and the single
\* record returned, in the step in which the call settles)
RecordAt(k) ==
  IF entry = "checkMultipleDelegations" THEN results[k] ELSE returned

\* the getCode calls that resolved to a string
StringReads == {k \in 1..Len(reads) : reads[k].ok /\ reads[k].code.defined}

\* 0xef0100 in any letter case
IsIndicatorAnyCase(s) ==
  /\ Len(s) >= 8
  /\ s[1] = "0" /\ s[2] \in {"x", "X"}
  /\ s[3] \in {"e", "E"} /\ s[4] \in {"f", "F"}
  /\ s[5] = "0" /\ s[6] = "1" /\ s[7] = "0" /\ s[8] = "0"

\* 0xef0100 followed by exactly 40 hex characters
IsExactDesignator(s) ==
  /\ Len(s) = 48
  /\ IsIndicatorAnyCase(s)
  /\ \A k \in 9..48 : s[k] \in HexChars

\* 0x followed by the characters 9..48 of s
FortyAfterIndicator(s) == <<"0", "x">> \o [k \in 1..40 |-> s[k + 8]]

\* C1: a code of the form 0xef0100 (in any letter case) followed by exactly 40
\* hex characters gives isDelegated = true, delegatedTo = 0x followed by
\* exactly those 40 characters, and the raw code in the record.
C1_ExactDesignatorDecoded ==
  \A k \in StringReads :
    IsExactDesignator(reads[k].code.str) =>
      /\ RecordAt(k).isDelegated
      /\ {"delegatedTo", "code"} \subseteq RecordAt(k).keys
      /\ RecordAt(k).delegatedTo = FortyAfterIndicator(reads[k].code.str)
      /\ RecordAt(k).code = reads[k].code.str

\* a mixed-case designator with a mixed-case address has been decoded
C1_Witness ==
  /\ pc = "done"
  /\ entry = "checkDelegation"
  /\ reads # <<>>
  /\ reads[1].ok /\ reads[1].code.defined
  /\ IsExactDesignator(reads[1].code.str)
  /\ reads[1].code.str[4] = "F"
  /\ reads[1].code.str[11] = "D"
  /\ returned.isDelegated

\* C2: isDelegated = true implies that delegatedTo is present and is exactly
\* the 20 bytes (40 hex characters) that follow the 3-byte indicator, for any
\* code the chain reader supplies.
C2_DelegatedToIsTwentyBytes ==
  \A k \in StringReads :
    RecordAt(k).isDelegated =>
      /\ "delegatedTo" \in RecordAt(k).keys
      /\ Len(RecordAt(k).delegatedTo) = 42
      /\ \A j \in 3..42 : RecordAt(k).delegatedTo[j] \in HexChars
      /\ Len(reads[k].code.str) >= 48
      /\ RecordAt(k).delegatedTo = FortyAfterIndicator(reads[k].code.str)

\* C3: a non-empty code that does not start with ef0100 after 0x (in any
\* letter case) gives isDelegated = false, no delegatedTo and the raw code
\* unchanged; isDelegated is true only when the lower-cased code starts with
\* 0xef0100.
C3_NoIndicatorNotDelegated ==
  \A k \in StringReads :
    /\ ( /\ reads[k].code.str \notin {<<>>, <<"0", "x">>}
         /\ ~IsIndicatorAnyCase(reads[k].code.str) )
       => /\ ~RecordAt(k).isDelegated
          /\ "delegatedTo" \notin RecordAt(k).keys
          /\ "code" \in RecordAt(k).keys
          /\ RecordAt(k).code = reads[k].code.str
          /\ RecordAt(k).message = <<"Address has code but no EIP-7702 delegation">>
    /\ RecordAt(k).isDelegated => IsIndicatorAnyCase(reads[k].code.str)

\* a code that shares the first two indicator bytes only has been inspected
C3_Witness ==
  /\ pc = "done"
  /\ entry = "checkDelegation"
  /\ reads # <<>>
  /\ reads[1].ok /\ reads[1].code.defined
  /\ Len(reads[1].code.str) = 48
  /\ SubSeq(reads[1].code.str, 1, 8) = <<"0", "x", "e", "f", "0", "1", "0", "1">>
  /\ ~returned.isDelegated
  /\ "code" \in returned.keys

\* C4: when getCode gives the empty-code marker (no code, or exactly "0x"),
\* the record has isDelegated = false, neither delegatedTo nor code, and the
\* 'No code at address' message.
C4_EmptyCodeNotDelegated ==
  \A k \in 1..Len(reads) :
    (reads[k].ok /\ (~reads[k].code.defined \/ reads[k].code.str = <<"0", "x">>))
      => /\ ~RecordAt(k).isDelegated
         /\ RecordAt(k).keys = {"isDelegated", "address", "network", "message"}
         /\ RecordAt(k).message = <<"No code at address (EOA or no delegation)">>

\* getCode resolved to exactly "0x" and the record was returned
C4_Witness ==
  /\ pc = "done"
  /\ entry = "checkDelegation"
  /\ reads # <<>>
  /\ reads[1].ok /\ reads[1].code = Str(<<"0", "x">>)
  /\ returned.keys = {"isDelegated", "address", "network", "message"}


\* 0x followed by a non-hex character somewhere, or by an odd number of digits
IsMalformedHex(s) ==
  /\ Len(s) >= 2
  /\ s[1] = "0" /\ s[2] = "x"
  /\ \/ \E k \in 3..Len(s) : s[k] \notin HexChars
     \/ (Len(s) - 2) % 2 = 1

\* C5 (as stated): when the code string is not valid hex, the check fails
\* with an error instead of returning a delegation record.
C5_MalformedCodeRejected ==
  \A k \in StringReads :
    IsMalformedHex(reads[k].code.str) =>
      IF entry = "checkMultipleDelegations"
      THEN "error" \in results[k].keys
      ELSE returned = NoRecord /\ throws # <<>>

\* C5 (amended): when the code string is not valid hex, the check does not
\* fail: no error is thrown and a record is returned that carries the raw
\* string in code; it is the 'has code but no delegation' record unless the
\* string starts with 0xef0100 in any letter case.
C5_MalformedCodeInspected ==
  \A k \in StringReads :
    IsMalformedHex(reads[k].code.str) =>
      /\ "error" \notin RecordAt(k).keys
      /\ {"isDelegated", "message", "code"} \subseteq RecordAt(k).keys
      /\ RecordAt(k).code = reads[k].code.str
      /\ ~IsIndicatorAnyCase(reads[k].code.str) =>
           /\ ~RecordAt(k).isDelegated
           /\ RecordAt(k).message = <<"Address has code but no EIP-7702 delegation">>
      /\ entry # "checkMultipleDelegations" => throws = <<>>

\* a code with a non-hex character and an odd number of digits came back in a
\* record, and nothing was thrown
C5_Witness ==
  /\ pc = "done"
  /\ entry = "checkDelegation"
  /\ reads # <<>>
  /\ reads[1].ok /\ reads[1].code.defined
  /\ IsMalformedHex(reads[1].code.str)
  /\ \E k \in 3..Len(reads[1].code.str) : reads[1].code.str[k] = "g"
  /\ Len(reads[1].code.str) % 2 = 1
  /\ "code" \in returned.keys
  /\ returned.code = reads[1].code.str
  /\ throws = <<>>

\* C6: checkMultipleDelegations returns exactly one result per input address,
\* the i-th result carrying the i-th input address, whatever succeeded or
\* failed.
C6_BatchOrderPreserved ==
  entry = "checkMultipleDelegations" =>
    /\ Len(results) <= Len(addresses)
    /\ Len(results) >= Len(reads)
    /\ \A k \in 1..Len(results) :
         /\ "address" \in results[k].keys
         /\ results[k].address = addresses[k]
    /\ pc = "done" => Len(results) = Len(addresses)

\* a batch over two different addresses ended with one failure and one success
C6_Witness ==
  /\ pc = "done"
  /\ entry = "checkMultipleDelegations"
  /\ Len(addresses) = 2
  /\ addresses[1] # addresses[2]
  /\ Len(reads) = 2
  /\ ~reads[1].ok /\ reads[2].ok
  /\ Len(results) = 2

\* C7: in a batch a failed chain read becomes that address's result
\* (isDelegated = false, an error message, no delegatedTo) and the batch goes
\* on: every other address gets the record a single check gives for the code
\* read for it.
C7_BatchFailureIsolated ==
  entry = "checkMultipleDelegations" =>
    /\ \A k \in 1..Len(reads) :
         /\ k <= Len(results)
         /\ IF reads[k].ok
            THEN results[k] =
                   checkDelegationResult(addresses[k], networkName, reads[k].code)
            ELSE /\ ~results[k].isDelegated
                 /\ results[k].keys = {"isDelegated", "address", "network", "error"}
                 /\ results[k].address = addresses[k]
                 /\ results[k].error =
                      <<"Failed to check delegation: ">> \o reads[k].error.message
    /\ (pc = "done" /\ reads # <<>>) => Len(reads) = Len(addresses)
    /\ (pc = "getCode") => Len(reads) = i - 1

\* the first read of a batch failed and the second address was still decoded
C7_Witness ==
  /\ pc = "done"
  /\ entry = "checkMultipleDelegations"
  /\ Len(reads) = 2
  /\ ~reads[1].ok /\ reads[2].ok
  /\ Len(results) = 2
  /\ "error" \in results[1].keys
  /\ results[2].isDelegated

SingleEntries == {"checkDelegation", "displayDelegationInfo"}

\* C8: in single-address mode a failed chain read aborts: checkDelegation
\* returns no record, displayDelegationInfo rethrows the error it caught, and
\* the script ends with a non-zero exit status.
C8_SingleFailureAborts ==
  (entry \in SingleEntries /\ reads # <<>> /\ ~reads[1].ok) =>
    /\ pc = "done"
    /\ returned = NoRecord
    /\ throws # <<>>
    /\ throws[1].by = "checkDelegation"
    /\ entry = "displayDelegationInfo" =>
         /\ Len(throws) = 2
         /\ throws[2].by = "displayDelegationInfo"
         /\ throws[2].error = throws[1].error
    /\ cli => exitCode = 1

\* the script was run on one address, the read failed and the process exited 1
C8_Witness ==
  /\ cli
  /\ entry = "displayDelegationInfo"
  /\ reads # <<>>
  /\ ~reads[1].ok
  /\ Len(throws) = 2
  /\ exitCode = 1

\* C9 (as stated): the error the caller of checkDelegation receives is the
\* chain reader's error unchanged.
C9_ReaderErrorUnchanged ==
  (entry \in SingleEntries /\ reads # <<>> /\ ~reads[1].ok) =>
    /\ throws # <<>>
    /\ throws[1].error = reads[1].error

\* C9 (amended): the caller of checkDelegation receives a new Error whose
\* message is "Failed to check delegation: " followed by the chain reader's
\* error message (or the string form of a thrown non-Error value).
C9_ReaderErrorWrapped ==
  /\ (entry \in SingleEntries /\ reads # <<>> /\ ~reads[1].ok) =>
       /\ throws # <<>>
       /\ throws[1].by = "checkDelegation"
       /\ throws[1].error.origin = "checkDelegation"
       /\ throws[1].error.isError
       /\ throws[1].error.message =
            <<"Failed to check delegation: ">> \o reads[1].error.message
  /\ entry = "checkMultipleDelegations" =>
       \A k \in 1..Len(reads) :
         (~reads[k].ok /\ k <= Len(results)) =>
           results[k].error =
             <<"Failed to check delegation: ">> \o reads[k].error.message

\* a read failed with an Error and the caller got the prefixed message
C9_Witness ==
  /\ pc = "done"
  /\ entry = "checkDelegation"
  /\ reads # <<>>
  /\ ~reads[1].ok
  /\ reads[1].error.isError
  /\ reads[1].error.message = <<"HTTP request failed.">>
  /\ throws # <<>>
  /\ throws[1].error.message =
       <<"Failed to check delegation: ", "HTTP request failed.">>

\* C10: for a network name outside {mainnet, sepolia, base, baseSepolia},
\* checkDelegation fails with the unknown-network error before any client is
\* created or any getCode call is issued, and returns no record.
C10_UnknownNetworkRejected ==
  (entry = "checkDelegation"
   /\ networkName \notin {mainnet, sepolia, base, baseSepolia}) =>
    /\ pc = "done"
    /\ clients = 0
    /\ getCodeCalls = 0
    /\ returned = NoRecord
    /\ throws = <<Thrown("checkDelegation", UnknownNetworkError(networkName))>>


(***************************************************************************)
(* The command line, as the properties read it.                            *)
(***************************************************************************)
RegisteredNames == {mainnet, sepolia, base, baseSepolia}

\* 0x followed by exactly 40 hex characters
MatchesAddressPattern(a) ==
  /\ Len(a) = 42
  /\ a[1] = "0" /\ a[2] = "x"
  /\ \A k \in 3..42 : a[k] \in HexChars

NotAddressPattern(a) == ~MatchesAddressPattern(a)

\* the arguments that stand for addresses: all of them, but for a trailing
\* registered network name
AddressArgs ==
  IF args # <<>> /\ args[Len(args)] \in RegisteredNames
  THEN SubSeq(args, 1, Len(args) - 1)
  ELSE args

MatchingArgs == SelectSeq(AddressArgs, MatchesAddressPattern)

C12_ExitNonZeroOnlyIfAllInvalid ==
  (cli /\ pc = "done") => (exitCode # 0 <=> MatchingArgs = <<>>)

\* C12 (amended): the script exits with a non-zero status when no valid
\* address remains, and when exactly one valid address remains and its chain
\* read fails; with two or more valid addresses it ends with status 0,
\* whatever chain reads fail.
C12_ExitStatusOfScript ==
  (cli /\ pc = "done") =>
    exitCode = IF MatchingArgs = <<>> THEN 1
               ELSE IF Len(MatchingArgs) = 1 /\ reads # <<>> /\ ~reads[1].ok THEN 1
               ELSE 0

\* a batch run from the command line ended with status 0 although a read
\* failed
C12_Witness ==
  /\ cli
  /\ pc = "done"
  /\ Len(MatchingArgs) >= 2
  /\ \E k \in 1..Len(reads) : ~reads[k].ok
  /\ exitCode = 0

\* C13: the script inspects only arguments that match 0x followed by exactly 40
\* hex characters: every address argument that does not match is reported and
\* dropped, and the addresses handed to inspection are the matching ones in
\* their original order.
C13_OnlyValidAddressesInspected ==
  (cli /\ args # <<>>) =>
    /\ reported = SelectSeq(AddressArgs, NotAddressPattern)
    /\ entry # "none" => addresses = MatchingArgs
    /\ \A k \in 1..Len(addresses) : MatchesAddressPattern(addresses[k])
    /\ getCodeCalls <= Len(MatchingArgs)
    /\ \A k \in 1..Len(results) : results[k].address = MatchingArgs[k]
    /\ "address" \in returned.keys => returned.address = MatchingArgs[1]

\* a command line that mixes malformed and well-formed addresses was checked
C13_Witness ==
  /\ cli
  /\ pc = "done"
  /\ Len(args) = 3
  /\ Len(reported) = 1
  /\ Len(reported[1]) = 42
  /\ \E k \in 3..42 : reported[1][k] = "g"
  /\ args[2] = reported[1]
  /\ Len(addresses) = 2
  /\ Len(results) = 2

\* C15: two checks of the same address and network for which getCode gives
\* the same code yield the same record, whatever was checked before or
\* between them.
C15_SameCodeSameRecord ==
  entry = "checkMultipleDelegations" =>
    \A j, k \in 1..Len(reads) :
      ( /\ j <= Len(results) /\ k <= Len(results)
        /\ addresses[j] = addresses[k]
        /\ reads[j].ok /\ reads[k].ok
        /\ reads[j].code = reads[k].code )
      => results[j] = results[k]

\* the same address was checked first and third with the same code, another
\* address with another code in between
C15_Witness ==
  /\ pc = "done"
  /\ entry = "checkMultipleDelegations"
  /\ Len(addresses) = 3 /\ Len(reads) = 3 /\ Len(results) = 3
  /\ addresses[1] = addresses[3] /\ addresses[1] # addresses[2]
  /\ reads[1].ok /\ reads[2].ok /\ reads[3].ok
  /\ reads[1].code = reads[3].code /\ reads[1].code # reads[2].code
  /\ results[1].isDelegated /\ ~results[2].isDelegated
  /\ results[1] = results[3]

\* C19: no retry: a checkDelegation call issues at most one getCode call, and
\* a batch over N addresses on a registered network issues exactly N, failed
\* or not.
C19_OneReadPerCheck ==
  /\ entry \in SingleEntries => getCodeCalls <= 1
  /\ entry = "checkMultipleDelegations" =>
       /\ getCodeCalls <= Len(addresses)
       /\ pc = "getCode" => getCodeCalls = i
       /\ (pc = "done" /\ networkName \in RegisteredNames) =>
            /\ getCodeCalls = Len(addresses)
            /\ Len(reads) = Len(addresses)
  /\ Len(reads) <= getCodeCalls

\* a batch over the same address twice ended after two reads, the first failed
C19_Witness ==
  /\ pc = "done"
  /\ entry = "checkMultipleDelegations"
  /\ networkName \in RegisteredNames
  /\ Len(addresses) = 2
  /\ addresses[1] = addresses[2]
  /\ Len(reads) = 2
  /\ ~reads[1].ok
  /\ getCodeCalls = 2

\* C20: the batch is sequential: at most one getCode call is in flight, and
\* the call for address i+1 is issued only after the result for address i has
\* been pushed.
C20_BatchSequential ==
  /\ inflight <= 1
  /\ entry = "checkMultipleDelegations" =>
       /\ getCodeCalls <= Len(results) + 1
       /\ pc = "getCode" =>
            /\ inflight = 1
            /\ Len(results) = i - 1
            /\ getCodeCalls = Len(results) + 1
       /\ pc = "done" => inflight = 0

\* the second read of a batch is in flight and the first result is pushed
C20_Witness ==
  /\ pc = "getCode"
  /\ entry = "checkMultipleDelegations"
  /\ i = 2
  /\ Len(results) = 1
  /\ inflight = 1
  /\ getCodeCalls = 2


\* C14: when no valid address remains (no argument at all, or only a network
\* name, or only malformed addresses), the script exits with a non-zero
\* status and a usage or error message, and issues no chain read.
C14_NoValidAddressExits ==
  (cli /\ MatchingArgs = <<>>) =>
    /\ pc = "done"
    /\ exitCode = 1
    /\ notice = IF args = <<>> THEN "usage" ELSE "No valid addresses provided"
    /\ entry = "none"
    /\ clients = 0
    /\ getCodeCalls = 0
    /\ reads = <<>>

\* the only argument was a network name
C14_Witness ==
  /\ cli
  /\ args = <<sepolia>>
  /\ pc = "done"
  /\ exitCode = 1
  /\ notice = "No valid addresses provided"
  /\ getCodeCalls = 0


\* the address written out in the README: 0x followed by forty zeros
ZeroAddressLiteral ==
  <<"0", "x",
    "0", "0", "0", "0", "0", "0", "0", "0", "0", "0",
    "0", "0", "0", "0", "0", "0", "0", "0", "0", "0",
    "0", "0", "0", "0", "0", "0", "0", "0", "0", "0",
    "0", "0", "0", "0", "0", "0", "0", "0", "0", "0">>

TxsBy(s) == {k \in 1..Len(txs) : txs[k].by = s}

\* C16: the revoke flow signs an authorization whose target is exactly the
\* zero address and submits one transaction to the signer's own address with
\* value 0, empty data and an authorization list holding exactly that
\* authorization.
C16_RevokeAuthorizesZeroAddress ==
  /\ (script = "revoke" /\ authorization.signed) =>
       /\ authorization.target = ZeroAddressLiteral
       /\ authorization.signer = account
  /\ (script = "revoke") => sends <= 1
  /\ (script = "revoke" /\ sends = 1) => authorization.signed
  /\ \A k \in TxsBy("revoke") :
       /\ Len(txs[k].authorizationList) = 1
       /\ txs[k].authorizationList[1].signed
       /\ txs[k].authorizationList[1].target = ZeroAddressLiteral
       /\ txs[k].to = txs[k].authorizationList[1].signer
       /\ txs[k].from = txs[k].to
       /\ txs[k].value = 0
       /\ txs[k].data = <<"0", "x">>
  /\ (script = "revoke" /\ successLogged) =>
       /\ txs # <<>>
       /\ txs[Len(txs)].by = "revoke"
       /\ txs[Len(txs)].authorizationList = <<authorization>>

\* a revoke run has signed, sent its transaction and exited with status 0
C16_Witness ==
  /\ script = "revoke"
  /\ spc = "exited"
  /\ scriptExit = 0
  /\ successLogged
  /\ authorization.signed
  /\ authorization.target = ZeroAddressLiteral
  /\ txs # <<>>
  /\ txs[Len(txs)].by = "revoke"
  /\ txs[Len(txs)].to = account

\* C17: the delegate flow never signs or submits an authorization whose target
\* is the zero address, whatever DELEGATION_CONTRACT is set to.
C17_DelegateNeverAuthorizesZero ==
  /\ (script = "delegate" /\ authorization.signed) =>
       ~IsZeroAddress(authorization.target)
  /\ \A k \in TxsBy("delegate") :
       ~IsZeroAddress(txs[k].authorizationList[1].target)

\* C18: a check made after mined delegate and revoke transactions of an
\* account reports isDelegated = true with delegatedTo the last delegated
\* contract when the last mined operation was a delegate, and isDelegated =
\* false when it was a revoke.
C18_CheckReportsLastOperation ==
  (/\ pc = "done"
   /\ entry = "checkDelegation"
   /\ reads # <<>>
   /\ reads[Len(reads)].ok
   /\ observed.by # "none") =>
     /\ (observed.by = "delegate") =>
          /\ returned.isDelegated
          /\ "delegatedTo" \in returned.keys
          /\ toLowerCase(returned.delegatedTo) = toLowerCase(observed.target)
     /\ (observed.by = "revoke") => ~returned.isDelegated


IsUnknownNetworkText(m) == m # <<>> /\ m[1] = "Unknown network: "

\* C21: the CLI takes the last argument as the network exactly when it is one
\* of the registered network names, and then the arguments before it are the
\* address candidates; otherwise the network is mainnet and every argument is
\* an address candidate, so that an unrecognised network name is reported as
\* an invalid address and never as an unknown network.
C21_LastArgumentSelectsNetwork ==
  (cli /\ args # <<>>) =>
    LET lastArg == args[Len(args)]
        isNetwork == lastArg \in RegisteredNames
        candidates == IF isNetwork THEN SubSeq(args, 1, Len(args) - 1) ELSE args
    IN /\ networkName = (IF isNetwork THEN lastArg ELSE mainnet)
       /\ reported = SelectSeq(candidates, NotAddressPattern)
       /\ (entry # "none") =>
            addresses = SelectSeq(candidates, MatchesAddressPattern)
       /\ (~isNetwork /\ NotAddressPattern(lastArg)) =>
            /\ reported # <<>>
            /\ reported[Len(reported)] = lastArg
       /\ \A k \in 1..Len(throws) :
            ~IsUnknownNetworkText(throws[k].error.message)
       /\ \A k \in 1..Len(results) :
            "error" \in results[k].keys => ~IsUnknownNetworkText(results[k].error)

\* an inherited property name came last: it was reported as an invalid address
\* and the address before it was read on mainnet
C21_Witness ==
  /\ cli
  /\ args = <<Address1, toString>>
  /\ networkName = mainnet
  /\ reported = <<toString>>
  /\ addresses = <<Address1>>
  /\ pc = "done"
  /\ reads # <<>>


\* the environment values the running script requires are set
RequiredEnvFound ==
  /\ env.PRIVATE_KEY # <<>>
  /\ (script = "delegate") => env.DELEGATION_CONTRACT # <<>>

\* C22: in both scripts sendTransaction is called only after the required
\* environment values were found and signAuthorization succeeded; when a value
\* is missing, or signing or sending fails, no later step runs, success is not
\* reported and the process exits with status 1; it exits with status 0 only
\* after the transaction was sent.
C22_ScriptStepsInOrder ==
  (script \in {"revoke", "delegate"}) =>
    /\ sends \in {0, 1}
    /\ (sends = 1) => (RequiredEnvFound /\ authorization.signed)
    /\ authorization.signed => (RequiredEnvFound /\ sends = 1)
    /\ (spc = "exited") <=> (scriptExit \in {0, 1})
    /\ ~RequiredEnvFound =>
         /\ spc = "exited" /\ scriptExit = 1
         /\ ~authorization.signed /\ sends = 0 /\ ~successLogged
    /\ (spc = "exited" /\ ~authorization.signed) =>
         (scriptExit = 1 /\ sends = 0 /\ ~successLogged)
    /\ (spc = "exited" /\ ~successLogged) => scriptExit = 1
    /\ successLogged => scriptExit = 0
    /\ (scriptExit = 0) =>
         /\ authorization.signed /\ sends = 1 /\ successLogged
         /\ txs # <<>>
         /\ txs[Len(txs)].by = script
         /\ txs[Len(txs)].authorizationList = <<authorization>>
    /\ \A k \in 1..Len(txs) : txs[k].authorizationList[1].signed

\* a delegate run found its values and signed, then sendTransaction failed: it
\* exited with status 1 without reporting success
C22_Witness ==
  /\ script = "delegate"
  /\ RequiredEnvFound
  /\ authorization.signed
  /\ sends = 1
  /\ spc = "exited"
  /\ scriptExit = 1
  /\ ~successLogged

====
